---------------------------- MODULE Spec2Model ----------------------------
(***************************************************************************)
(* EulerProbability: sample-sequence generators (white noise, Design A     *)
(* red/blue noise) and the Monte Carlo harness (LotteryTest, SumTest,      *)
(* CandidatesTest) of main.cpp.                                            *)
(*                                                                         *)
(* Floats are modelled as exact rationals <<n, d>> (d > 0, lowest terms),  *)
(* so every statement below is about exact arithmetic, not float rounding. *)
(* C++ vectors are 0-based; sequences here are 1-based, element i of a     *)
(* vector is At(v, i).                                                     *)
(***************************************************************************)
EXTENDS Integers, Sequences, FiniteSets, TLC

(***************************************************************************)
(* Exact rationals standing for float.                                     *)
(***************************************************************************)
Abs(n) == IF n < 0 THEN -n ELSE n

RECURSIVE GCD(_, _)
GCD(a, b) == IF b = 0 THEN a ELSE GCD(b, a % b)

Rat(n, d) ==
    LET g == GCD(Abs(n), d)
    IN  IF g = 0 THEN <<0, 1>> ELSE <<n \div g, d \div g>>

Zero == <<0, 1>>
One == <<1, 1>>
Int2Rat(n) == <<n, 1>>

RAdd(a, b) == Rat(a[1] * b[2] + b[1] * a[2], a[2] * b[2])
RSub(a, b) == Rat(a[1] * b[2] - b[1] * a[2], a[2] * b[2])
RMul(a, b) == Rat(a[1] * b[1], a[2] * b[2])
RLess(a, b) == a[1] * b[2] < b[1] * a[2]
RMax(a, b) == IF RLess(a, b) THEN b ELSE a
\* size_t(f) for a non-negative f: truncation
RTrunc(a) == a[1] \div a[2]

Min(a, b) == IF a < b THEN a ELSE b
At(v, i) == v[i + 1]

(***************************************************************************)
(* Bounds of the model.                                                    *)
(***************************************************************************)
\* pcg32 outputs are 0 .. PcgOutputs-1 (2^32 in the library)
PcgOutputs == 8
\* g_randomSeed ranges over 0 .. MaxSeed
MaxSeed == 2
\* worker threads of the OpenMP team
NumThreads == 2
\* single calls of the scoring rules: candidate sequences of 3 .. MaxCandidateCount
\* values, lotteries with a win frequency of 1 .. MaxWinFrequency and samples
\* k / LotteryLevels
MaxCandidateCount == 6
MaxWinFrequency == 3
LotteryLevels == 4
\* single reductions: 1 .. MaxFold buckets of 1 .. MaxFold outcomes
MaxFold == 2
\* single generator calls: 0 .. MaxNoiseSamples samples of streams 0 .. MaxStreamIndex
MaxNoiseSamples == 3
MaxStreamIndex == 3

(***************************************************************************)
(* Test settings (main.cpp:13-23), scaled down.  The scaling keeps the     *)
(* relations of the source: lottery outer = inner (1000, 1000), sum outer  *)
(* = inner (10000, 10000), candidate outer = sum outer (10000), candidate  *)
(* inner < candidate outer (1000 < 10000), floor(candidateCount / e) >= 1. *)
(***************************************************************************)
c_lotteryWinFrequency == 2
c_lotteryTestCountOuter == 2
c_lotteryTestCountInner == 2
c_sumTestCountOuter == 3
c_sumTestCountInner == 3
c_candidateTestCountOuter == 3
c_candidateTestCountInner == 2
c_candidateCount == 4
\* the 25 of RNG(25, ...) in SumTest
c_sumSampleCount == 3

\* size_t arithmetic is modular; the only wrap-around the model can reach is
\* 0 - 1, so a narrower width than 64 bits gives the same results.
SizeModulus == 2 ^ 20
SizeT(x) == x % SizeModulus

VARIABLES
    g_randomSeed,       \* the run seed (main.cpp:28), read by every generator
    cfg,                \* the test settings the build was compiled with
    kind,               \* which test runs: "Lottery", "Sum", "Candidates"
    sequenceIndex,      \* the test's sequenceIndex argument
    todo,               \* outer iterations the parallel for has not started
    pc,                 \* per thread: position in the loop body
    testIndexOuter,     \* per thread: the outer iteration it executes
    testIndexInner,     \* per thread: its inner loop counter
    wins,               \* LotteryTest: wins[testIndexOuter]
    sumCountAvg,        \* SumTest
    sumCountSquareAvg,  \* SumTest
    results,            \* CandidatesTest: results[testIndexOuter]
    testsFinished,      \* std::atomic<int>
    lastPercent,        \* progress state
    printed,            \* what was printed: number of error lines, the result
    handed,             \* log: every stream index handed to a generator
    folded,             \* log: per bucket, the outcomes folded, in order
    fn, arg, ret        \* a single call of a pure function: name, input, output

harnessVars == <<cfg, kind, sequenceIndex, todo, pc, testIndexOuter, testIndexInner,
                 wins, sumCountAvg, sumCountSquareAvg, results, testsFinished,
                 lastPercent, printed, handed, folded>>
pureVars == <<fn, arg, ret>>
vars == <<g_randomSeed, harnessVars, pureVars>>

(***************************************************************************)
(* Lerp (main.cpp:30)                                                      *)
(***************************************************************************)
\* mutant: the two weights exchanged
Lerp_WeightsSwapped(A, B, t) == RAdd(RMul(A, t), RMul(B, RSub(One, t)))

Lerp(A, B, t) == RAdd(RMul(A, RSub(One, t)), RMul(B, t))

(***************************************************************************)
(* The pcg32 generator of pcg/pcg_basic.h, with a state of PcgOutputs^3    *)
(* values and the high digit of the state as output.                       *)
(***************************************************************************)
PcgStates == PcgOutputs * PcgOutputs * PcgOutputs
PcgStep(state, inc) == (state * 5 + inc) % PcgStates

\* pcg32_srandom_r(&rng, initstate, initseq)
pcg32_srandom_r(initstate, initseq) ==
    LET inc == (2 * initseq + 1) % PcgStates
        s1 == PcgStep(0, inc)
        s2 == (s1 + initstate) % PcgStates
    IN  [state |-> PcgStep(s2, inc), inc |-> inc]

\* the rng after n calls of pcg32_random_r
RECURSIVE PcgAfter(_, _)
PcgAfter(rng, n) ==
    IF n = 0 THEN rng
    ELSE PcgAfter([rng EXCEPT !.state = PcgStep(rng.state, rng.inc)], n - 1)

\* the value the next pcg32_random_r(&rng) returns
pcg32_random_r(rng) == rng.state \div (PcgOutputs * PcgOutputs)

\* PCGRandomFloat01 (main.cpp:37): ldexpf(output, -32)
PCGRandomFloat01(rng) == Rat(pcg32_random_r(rng), PcgOutputs)

(***************************************************************************)
(* MapFloat<size_t> (main.cpp:42)                                          *)
(***************************************************************************)
MapFloat(f, min, max) ==
    LET range == SizeT(max - min)
    IN  min + Min(RTrunc(RMul(f, Int2Rat(SizeT(range + 1)))), range)

(***************************************************************************)
(* Generators (main.cpp:49, 87-134)                                        *)
(***************************************************************************)
Generate_WhiteNoise(numSamples, streamIndex) ==
    LET rng == pcg32_srandom_r(g_randomSeed, streamIndex)
    IN  [p \in 1..numSamples |-> PCGRandomFloat01(PcgAfter(rng, p - 1))]

LinearToUniform(x) == RMul(x, x)

Half == <<1, 2>>
Two == <<2, 1>>

TriangleToUniform(x) ==
    IF RLess(x, Half)
    THEN RMul(LinearToUniform(RMul(x, Two)), Half)
    ELSE RSub(One, RMul(LinearToUniform(RMul(RSub(One, x), Two)), Half))

\* the loop starts at i = 1: ret[0] keeps the 0.0f the vector was built with
BlueNoiseFirst == 1
Generate_BlueNoise(numSamples, streamIndex) ==
    LET whiteNoise == Generate_WhiteNoise(numSamples + 1, streamIndex)
    IN  [p \in 1..numSamples |->
            LET i == p - 1
            IN  IF i < BlueNoiseFirst THEN Zero
                ELSE TriangleToUniform(
                        RMul(RAdd(RSub(At(whiteNoise, i + 1), At(whiteNoise, i)), One),
                             Half))]

RedNoiseFirst == 1
Generate_RedNoise(numSamples, streamIndex) ==
    LET whiteNoise == Generate_WhiteNoise(numSamples + 1, streamIndex)
    IN  [p \in 1..numSamples |->
            LET i == p - 1
            IN  IF i < RedNoiseFirst THEN Zero
                ELSE TriangleToUniform(
                        RMul(RAdd(At(whiteNoise, i + 1), At(whiteNoise, i)), Half))]

\* the generator main passes together with each sequenceIndex (main.cpp:423-455);
\* the model covers the calls with White Noise (0), Red Noise (4), Blue Noise (5)
ModelledCalls == {0, 4, 5}
RNGOf(seqIdx, numSamples, streamIndex) ==
    CASE seqIdx = 4 -> Generate_RedNoise(numSamples, streamIndex)
      [] seqIdx = 5 -> Generate_BlueNoise(numSamples, streamIndex)
      [] OTHER -> Generate_WhiteNoise(numSamples, streamIndex)

(***************************************************************************)
(* The three scoring rules, as the loop bodies compute them.               *)
(***************************************************************************)
\* LotteryTest (main.cpp:231-240): win after the loop over rng from position index
RECURSIVE LotteryScan(_, _, _, _)
LotteryScan(N, winningNumber, rng, index) ==
    IF index >= Len(rng) THEN 0
    ELSE IF MapFloat(At(rng, index), 0, SizeT(N - 1)) = winningNumber THEN 1
    ELSE LotteryScan(N, winningNumber, rng, index + 1)

\* mutant: only the first sample is compared
LotteryWin_FirstOnly(N, winningFloat, rng) ==
    IF Len(rng) > 0 /\ MapFloat(At(rng, 0), 0, SizeT(N - 1))
                        = MapFloat(winningFloat, 0, SizeT(N - 1))
    THEN 1 ELSE 0

\* LotteryTest (main.cpp:226-240): the winning number and the win flag
LotteryWin(N, winningFloat, rng) ==
    LotteryScan(N, MapFloat(winningFloat, 0, SizeT(N - 1)), rng, 0)

\* SumTest (main.cpp:283-296): value after adding rng[0..n-1]
RECURSIVE SumValue(_, _)
SumValue(rng, n) == IF n = 0 THEN Zero ELSE RAdd(SumValue(rng, n - 1), At(rng, n - 1))

\* the index at which the loop breaks (value >= 1.0f), or Len(rng) if it never does
RECURSIVE SumBreakAt(_, _)
SumBreakAt(rng, index) ==
    IF index >= Len(rng) THEN Len(rng)
    ELSE IF ~RLess(SumValue(rng, index + 1), One) THEN index
    ELSE SumBreakAt(rng, index + 1)

\* mutant: an exhausted trial is folded as a count of 0
SumTrial_ZeroOnExhaustion(rng) ==
    LET at == SumBreakAt(rng, 0)
    IN  [reached |-> TRUE, count |-> IF at < Len(rng) THEN at + 1 ELSE 0]

\* reached: the break was taken (a count is folded); otherwise value < 1.0f after
\* the loop and the error line is printed
SumTrial(rng) ==
    LET at == SumBreakAt(rng, 0)
    IN  [reached |-> at < Len(rng), count |-> at + 1]

\* CandidatesTest (main.cpp:353): size_t(float(c_candidateCount) / std::exp(1.0f))
PreCandidates(K) == (K * 1000000) \div 2718282

\* main.cpp:354-356
RECURSIVE BestPreCandidate(_, _)
BestPreCandidate(candidates, n) ==
    IF n = 0 THEN Zero
    ELSE RMax(BestPreCandidate(candidates, n - 1), At(candidates, n - 1))

\* mutant: a candidate equal to the best of the first group is taken
RECURSIVE ScanCandidates_NonStrict(_, _, _, _)
ScanCandidates_NonStrict(candidates, i, K, bestPreCandidate) ==
    IF i >= K THEN [foundAt |-> 0, bestCandidate |-> Zero]
    ELSE IF ~RLess(At(candidates, i), bestPreCandidate)
         THEN [foundAt |-> i, bestCandidate |-> At(candidates, i)]
         ELSE ScanCandidates_NonStrict(candidates, i + 1, K, bestPreCandidate)

\* main.cpp:359-369: foundAt and bestCandidate after the scan from index i
RECURSIVE ScanCandidates(_, _, _, _)
ScanCandidates(candidates, i, K, bestPreCandidate) ==
    IF i >= K THEN [foundAt |-> 0, bestCandidate |-> Zero]
    ELSE IF RLess(bestPreCandidate, At(candidates, i))
         THEN [foundAt |-> i, bestCandidate |-> At(candidates, i)]
         ELSE ScanCandidates(candidates, i + 1, K, bestPreCandidate)

\* main.cpp:351-385: foundAt and betterCount of one trial
CandidateTrial(candidates, K) ==
    LET preCandidates == PreCandidates(K)
        bestPreCandidate == BestPreCandidate(candidates, preCandidates)
        scan == ScanCandidates(candidates, preCandidates, K, bestPreCandidate)
        foundAt == IF scan.foundAt = 0 THEN SizeT(K - 1) ELSE scan.foundAt
        bestCandidate == IF scan.foundAt = 0 THEN bestPreCandidate
                         ELSE scan.bestCandidate
        betterCount == Cardinality({i \in 0..(K - 1) : RLess(bestCandidate, At(candidates, i))})
    IN  [foundAt |-> foundAt, betterCount |-> betterCount]

(***************************************************************************)
(* The reduction loops after the parallel region (main.cpp:247-250,        *)
(* 302-308, 393-400): fold values[0..n-1] with weight 1/(index+1).         *)
(***************************************************************************)
RECURSIVE FoldMean(_, _)
FoldMean(values, n) ==
    IF n = 0 THEN Zero
    ELSE Lerp(FoldMean(values, n - 1), At(values, n - 1), Rat(1, n))

(***************************************************************************)
(* The harness: one call of LotteryTest, SumTest or CandidatesTest.        *)
(***************************************************************************)
Kinds == {"Lottery", "Sum", "Candidates"}
Threads == 0..(NumThreads - 1)

Configured ==
    [lotteryWinFrequency |-> c_lotteryWinFrequency,
     lotteryTestCountOuter |-> c_lotteryTestCountOuter,
     lotteryTestCountInner |-> c_lotteryTestCountInner,
     sumTestCountOuter |-> c_sumTestCountOuter,
     sumTestCountInner |-> c_sumTestCountInner,
     candidateTestCountOuter |-> c_candidateTestCountOuter,
     candidateTestCountInner |-> c_candidateTestCountInner,
     candidateCount |-> c_candidateCount]

\* the bounds of the two loops (main.cpp:210-212, 266-268, 333-335)
CountOuter(k, c) ==
    CASE k = "Lottery" -> c.lotteryTestCountOuter
      [] k = "Sum" -> c.sumTestCountOuter
      [] OTHER -> c.candidateTestCountOuter

CountInner(k, c) ==
    CASE k = "Lottery" -> c.lotteryTestCountInner
      [] k = "Sum" -> c.sumTestCountInner
      [] OTHER -> c.candidateTestCountInner

\* main.cpp:203, 259, 319
SequenceIndexBase(k, c, seqIdx) ==
    CASE k = "Lottery" -> seqIdx * c.lotteryTestCountOuter * c.lotteryTestCountInner * 2
      [] k = "Sum" -> seqIdx * c.sumTestCountOuter * c.sumTestCountInner
      [] OTHER -> seqIdx * c.candidateTestCountOuter * c.candidateTestCountInner

\* main.cpp:224, 280, 347
TestIndex(k, c, o, i) ==
    CASE k = "Lottery" -> o * c.lotteryTestCountInner + i
      [] k = "Sum" -> o * c.sumTestCountOuter + i
      [] OTHER -> o * c.sumTestCountOuter + i

\* the sub-draws of one trial: the winning number and the samples of the lottery
Slots(k) == IF k = "Lottery" THEN {0, 1} ELSE {0}

\* mutant: the lottery's two sub-draws without the factor 2
StreamIndex_NoSlotStride(k, c, seqIdx, o, i, slot) ==
    IF k = "Lottery"
    THEN SequenceIndexBase(k, c, seqIdx) + TestIndex(k, c, o, i) + slot
    ELSE SequenceIndexBase(k, c, seqIdx) + TestIndex(k, c, o, i)

\* the index passed to the generator (main.cpp:227, 230, 282, 349)
StreamIndex(k, c, seqIdx, o, i, slot) ==
    IF k = "Lottery"
    THEN SequenceIndexBase(k, c, seqIdx) + TestIndex(k, c, o, i) * 2 + slot
    ELSE SequenceIndexBase(k, c, seqIdx) + TestIndex(k, c, o, i)

Draws(o, i) ==
    {[outer |-> o, inner |-> i, slot |-> s,
      index |-> StreamIndex(kind, cfg, sequenceIndex, o, i, s)] : s \in Slots(kind)}

\* the values one trial folds into its bucket, or <<>> if it folds nothing
TrialOutcome(o, i) ==
    CASE kind = "Lottery" ->
            <<LotteryWin(cfg.lotteryWinFrequency,
                At(Generate_WhiteNoise(1, StreamIndex(kind, cfg, sequenceIndex, o, i, 0)), 0),
                RNGOf(sequenceIndex, cfg.lotteryWinFrequency,
                      StreamIndex(kind, cfg, sequenceIndex, o, i, 1)))>>
      [] kind = "Sum" ->
            LET t == SumTrial(RNGOf(sequenceIndex, c_sumSampleCount,
                                    StreamIndex(kind, cfg, sequenceIndex, o, i, 0)))
            IN  IF t.reached THEN <<t.count, t.count * t.count>> ELSE <<>>
      [] OTHER ->
            LET t == CandidateTrial(RNGOf(sequenceIndex, cfg.candidateCount,
                                          StreamIndex(kind, cfg, sequenceIndex, o, i, 0)),
                                    cfg.candidateCount)
            IN  <<t.foundAt, t.foundAt * t.foundAt,
                  t.betterCount, t.betterCount * t.betterCount>>

\* the weight of the fold of inner trial i (main.cpp:242, 290, 376)
FoldWeight(i) == Rat(1, i + 1)

NewResults ==
    [candidatesEvaluatedAvg |-> Zero, candidatesEvaluatedSqAvg |-> Zero,
     candidateRankAvg |-> Zero, candidateRankSqAvg |-> Zero]

Buckets(k) == IF kind = k THEN 0..(CountOuter(kind, cfg) - 1) ELSE {}

HarnessInit(c) ==
    /\ cfg = c
    /\ kind \in Kinds
    /\ sequenceIndex \in ModelledCalls
    /\ todo = 0..(CountOuter(kind, cfg) - 1)
    /\ pc = [t \in Threads |-> "idle"]
    /\ testIndexOuter = [t \in Threads |-> 0]
    /\ testIndexInner = [t \in Threads |-> 0]
    /\ wins = [o \in Buckets("Lottery") |-> Zero]
    /\ sumCountAvg = [o \in Buckets("Sum") |-> Zero]
    /\ sumCountSquareAvg = [o \in Buckets("Sum") |-> Zero]
    /\ results = [o \in Buckets("Candidates") |-> NewResults]
    /\ testsFinished = 0
    /\ lastPercent = -1
    /\ printed = [errors |-> 0, result |-> <<>>]
    /\ handed = {}
    /\ folded = [o \in 0..(CountOuter(kind, cfg) - 1) |-> <<>>]

NoCall == /\ fn = "none" /\ arg = <<>> /\ ret = <<>>

Init ==
    /\ g_randomSeed \in 0..MaxSeed
    /\ HarnessInit(Configured)
    /\ NoCall

\* mutant: the progress report without its guard, entered by every thread
IsReporter_AnyThread(t) == t \in Threads

\* omp_get_thread_num() == 0 (main.cpp:214, 270, 337)
IsReporter(t) == t = 0

\* where thread t stands with its inner counter at i: before the progress report
\* (only the thread with omp_get_thread_num() = 0 enters it), before the trial, or
\* past the inner loop
LoopHead(t, i) ==
    IF i < CountInner(kind, cfg)
    THEN IF IsReporter(t) THEN "progress" ELSE "trial"
    ELSE "idle"

\* mutant: the iteration is handed out without being taken off the list, so a
\* second thread may execute it too
StartIteration_SharedIteration(t, o) ==
    /\ pc[t] = "idle"
    /\ o \in todo
    /\ todo' = IF t = 0 THEN todo \ {o} ELSE todo
    /\ testIndexOuter' = [testIndexOuter EXCEPT ![t] = o]
    /\ testIndexInner' = [testIndexInner EXCEPT ![t] = 0]
    /\ pc' = [pc EXCEPT ![t] = LoopHead(t, 0)]
    /\ UNCHANGED <<g_randomSeed, cfg, kind, sequenceIndex, wins, sumCountAvg,
                   sumCountSquareAvg, results, testsFinished, lastPercent, printed,
                   handed, folded, pureVars>>

\* the parallel for hands outer iteration o to thread t (main.cpp:209, 265, 332)
StartIteration(t, o) ==
    /\ pc[t] = "idle"
    /\ o \in todo
    /\ todo' = todo \ {o}
    /\ testIndexOuter' = [testIndexOuter EXCEPT ![t] = o]
    /\ testIndexInner' = [testIndexInner EXCEPT ![t] = 0]
    /\ pc' = [pc EXCEPT ![t] = LoopHead(t, 0)]
    /\ UNCHANGED <<g_randomSeed, cfg, kind, sequenceIndex, wins, sumCountAvg,
                   sumCountSquareAvg, results, testsFinished, lastPercent, printed,
                   handed, folded, pureVars>>

\* int(100.0f * float(testsFinished.load()) / float(outer * inner))
Percent(finished) ==
    (100 * finished) \div (CountOuter(kind, cfg) * CountInner(kind, cfg))

\* the progress report at the head of the inner loop body (main.cpp:214-222)
Progress(t) ==
    /\ pc[t] = "progress"
    /\ IsReporter(t)
    /\ lastPercent' = IF Percent(testsFinished) # lastPercent
                      THEN Percent(testsFinished) ELSE lastPercent
    /\ pc' = [pc EXCEPT ![t] = "trial"]
    /\ UNCHANGED <<g_randomSeed, cfg, kind, sequenceIndex, todo, testIndexOuter,
                   testIndexInner, wins, sumCountAvg, sumCountSquareAvg, results,
                   testsFinished, printed, handed, folded, pureVars>>

\* one trial: draw, score, fold into the bucket, testsFinished.fetch_add(1) and the
\* loop's ++testIndexInner (main.cpp:224-243, 280-297, 347-389)
Trial(t) ==
    /\ pc[t] = "trial"
    /\ \E o \in {testIndexOuter[t]}, i \in {testIndexInner[t]} :
       \E out \in {TrialOutcome(o, i)}, w \in {FoldWeight(i)} :
        /\ handed' = handed \cup Draws(o, i)
        /\ IF out = <<>>
           THEN /\ printed' = [printed EXCEPT !.errors = @ + 1]
                /\ UNCHANGED <<wins, sumCountAvg, sumCountSquareAvg, results, folded>>
           ELSE /\ folded' = [folded EXCEPT ![o] = Append(@, [inner |-> i, values |-> out])]
                /\ wins' = IF kind = "Lottery"
                           THEN [wins EXCEPT ![o] = Lerp(@, Int2Rat(out[1]), w)]
                           ELSE wins
                /\ sumCountAvg' = IF kind = "Sum"
                           THEN [sumCountAvg EXCEPT ![o] = Lerp(@, Int2Rat(out[1]), w)]
                           ELSE sumCountAvg
                /\ sumCountSquareAvg' = IF kind = "Sum"
                           THEN [sumCountSquareAvg EXCEPT ![o] = Lerp(@, Int2Rat(out[2]), w)]
                           ELSE sumCountSquareAvg
                /\ results' = IF kind = "Candidates"
                           THEN [results EXCEPT ![o] =
                                  [candidatesEvaluatedAvg |->
                                      Lerp(@.candidatesEvaluatedAvg, Int2Rat(out[1]), w),
                                   candidatesEvaluatedSqAvg |->
                                      Lerp(@.candidatesEvaluatedSqAvg, Int2Rat(out[2]), w),
                                   candidateRankAvg |->
                                      Lerp(@.candidateRankAvg, Int2Rat(out[3]), w),
                                   candidateRankSqAvg |->
                                      Lerp(@.candidateRankSqAvg, Int2Rat(out[4]), w)]]
                           ELSE results
                /\ UNCHANGED printed
        /\ testsFinished' = testsFinished + 1
        /\ testIndexInner' = [testIndexInner EXCEPT ![t] = i + 1]
        /\ pc' = [pc EXCEPT ![t] = LoopHead(t, i + 1)]
        /\ UNCHANGED <<g_randomSeed, cfg, kind, sequenceIndex, todo, testIndexOuter,
                       lastPercent, pureVars>>

\* the thread reaches the barrier at the end of the parallel for
Join(t) ==
    /\ pc[t] = "idle"
    /\ todo = {}
    /\ pc' = [pc EXCEPT ![t] = "joined"]
    /\ UNCHANGED <<g_randomSeed, cfg, kind, sequenceIndex, todo, testIndexOuter,
                   testIndexInner, wins, sumCountAvg, sumCountSquareAvg, results,
                   testsFinished, lastPercent, printed, handed, folded, pureVars>>

\* the accumulators of bucket o, in the order of TrialOutcome
Accumulators(o) ==
    CASE kind = "Lottery" -> <<wins[o]>>
      [] kind = "Sum" -> <<sumCountAvg[o], sumCountSquareAvg[o]>>
      [] OTHER -> <<results[o].candidatesEvaluatedAvg, results[o].candidatesEvaluatedSqAvg,
                    results[o].candidateRankAvg, results[o].candidateRankSqAvg>>

\* the sequential loops after the parallel region (main.cpp:247-250, 302-308,
\* 393-400); the lottery folds 1 - wins[o]
FinalMeans(acc, n) ==
    IF kind = "Lottery"
    THEN <<FoldMean([p \in 1..n |-> RSub(One, acc[p - 1][1])], n)>>
    ELSE [j \in 1..Len(acc[0]) |-> FoldMean([p \in 1..n |-> acc[p - 1][j]], n)]

Reduce ==
    /\ \A t \in Threads : pc[t] = "joined"
    /\ printed.result = <<>>
    /\ LET n == CountOuter(kind, cfg)
       IN  printed' = [printed EXCEPT !.result =
                IF n = 0 THEN IF kind = "Lottery" THEN <<Zero>>
                              ELSE IF kind = "Sum" THEN <<Zero, Zero>>
                              ELSE <<Zero, Zero, Zero, Zero>>
                ELSE FinalMeans([o \in 0..(n - 1) |-> Accumulators(o)], n)]
    /\ UNCHANGED <<g_randomSeed, cfg, kind, sequenceIndex, todo, pc, testIndexOuter,
                   testIndexInner, wins, sumCountAvg, sumCountSquareAvg, results,
                   testsFinished, lastPercent, handed, folded, pureVars>>

Next ==
    \/ \E t \in Threads : \E o \in todo : StartIteration(t, o)
    \/ \E t \in Threads : Progress(t)
    \/ \E t \in Threads : Trial(t)
    \/ \E t \in Threads : Join(t)
    \/ Reduce

Spec == Init /\ [][Next]_vars

(***************************************************************************)
(* Single calls of the scoring rules, the reduction and the Design A       *)
(* generators, on inputs drawn from bounded sets.                          *)
(***************************************************************************)
HarnessIdle ==
    /\ cfg = Configured
    /\ kind = "none"
    /\ sequenceIndex = 0
    /\ todo = {}
    /\ pc = [t \in Threads |-> "joined"]
    /\ testIndexOuter = [t \in Threads |-> 0]
    /\ testIndexInner = [t \in Threads |-> 0]
    /\ wins = <<>>
    /\ sumCountAvg = <<>>
    /\ sumCountSquareAvg = <<>>
    /\ results = <<>>
    /\ testsFinished = 0
    /\ lastPercent = -1
    /\ printed = [errors |-> 0, result |-> <<>>]
    /\ handed = {}
    /\ folded = <<>>

CandidateValues == {Zero, Rat(2, 10), Rat(3, 10), Rat(5, 10), Rat(9, 10)}
FoldOutcomes == {0, 1, 3}
Levels(n) == {Rat(k, n) : k \in 0..(n - 1)}

FoldStart == [bucket |-> 0, inner |-> 0, acc |-> Zero, means |-> <<>>, final |-> <<>>]

InitCall ==
    /\ HarnessIdle
    /\ \/ /\ fn = "CandidateTrial"
          /\ g_randomSeed = 0
          /\ \E K \in 3..MaxCandidateCount : arg \in [1..K -> CandidateValues]
          /\ ret = <<>>
       \/ /\ fn = "LotteryWin"
          /\ g_randomSeed = 0
          /\ \E N \in 1..MaxWinFrequency :
                arg \in [N : {N}, winningFloat : Levels(LotteryLevels),
                         rng : [1..N -> Levels(LotteryLevels)]]
          /\ ret = <<>>
       \/ /\ fn = "Fold"
          /\ g_randomSeed = 0
          /\ \E O \in 1..MaxFold, I \in 1..MaxFold : arg \in [1..O -> [1..I -> FoldOutcomes]]
          /\ ret = <<FoldStart>>
       \/ /\ fn \in {"Generate_BlueNoise", "Generate_RedNoise"}
          /\ g_randomSeed \in 0..MaxSeed
          /\ arg \in [numSamples : 0..MaxNoiseSamples, streamIndex : 0..MaxStreamIndex]
          /\ ret = <<>>

CallCandidateTrial ==
    /\ fn = "CandidateTrial"
    /\ ret = <<>>
    /\ ret' = <<CandidateTrial(arg, Len(arg))>>
    /\ UNCHANGED <<g_randomSeed, harnessVars, fn, arg>>

CallLotteryWin ==
    /\ fn = "LotteryWin"
    /\ ret = <<>>
    /\ ret' = <<LotteryWin(arg.N, arg.winningFloat, arg.rng)>>
    /\ UNCHANGED <<g_randomSeed, harnessVars, fn, arg>>

\* one pass of the inner loop body's fold (main.cpp:242) over bucket st.bucket
FoldOutcome ==
    /\ fn = "Fold"
    /\ LET st == ret[1]
           I == Len(arg[1])
       IN  /\ st.bucket < Len(arg)
           /\ LET acc == Lerp(st.acc, Int2Rat(At(At(arg, st.bucket), st.inner)),
                              FoldWeight(st.inner))
              IN  ret' = IF st.inner + 1 < I
                         THEN <<[st EXCEPT !.inner = @ + 1, !.acc = acc]>>
                         ELSE <<[st EXCEPT !.bucket = @ + 1, !.inner = 0, !.acc = Zero,
                                           !.means = Append(@, acc)]>>
    /\ UNCHANGED <<g_randomSeed, harnessVars, fn, arg>>

\* the loop after the parallel region (main.cpp:302-308) over the bucket means
FoldBuckets ==
    /\ fn = "Fold"
    /\ ret[1].bucket = Len(arg)
    /\ ret[1].final = <<>>
    /\ ret' = <<[ret[1] EXCEPT !.final = <<FoldMean(ret[1].means, Len(arg))>>]>>
    /\ UNCHANGED <<g_randomSeed, harnessVars, fn, arg>>

CallGenerate_BlueNoise ==
    /\ fn = "Generate_BlueNoise"
    /\ ret = <<>>
    /\ ret' = <<Generate_BlueNoise(arg.numSamples, arg.streamIndex)>>
    /\ UNCHANGED <<g_randomSeed, harnessVars, fn, arg>>

CallGenerate_RedNoise ==
    /\ fn = "Generate_RedNoise"
    /\ ret = <<>>
    /\ ret' = <<Generate_RedNoise(arg.numSamples, arg.streamIndex)>>
    /\ UNCHANGED <<g_randomSeed, harnessVars, fn, arg>>

NextCall ==
    \/ CallCandidateTrial
    \/ CallLotteryWin
    \/ FoldOutcome
    \/ FoldBuckets
    \/ CallGenerate_BlueNoise
    \/ CallGenerate_RedNoise

SpecCall == InitCall /\ [][NextCall]_vars

(***************************************************************************)
(* The same harness compiled with other test settings: the configured ones *)
(* and each degenerate one (a zero count, a zero win frequency, a          *)
(* candidate pool with floor(candidateCount / e) = 0).                     *)
(***************************************************************************)
Settings ==
    {Configured,
     [Configured EXCEPT !.lotteryWinFrequency = 0],
     [Configured EXCEPT !.lotteryTestCountOuter = 0],
     [Configured EXCEPT !.lotteryTestCountInner = 0],
     [Configured EXCEPT !.sumTestCountOuter = 0, !.candidateTestCountOuter = 0],
     [Configured EXCEPT !.sumTestCountInner = 0],
     [Configured EXCEPT !.candidateTestCountInner = 0],
     [Configured EXCEPT !.candidateCount = 2]}

InitSettings ==
    /\ g_randomSeed \in 0..MaxSeed
    /\ \E c \in Settings : HarnessInit(c)
    /\ NoCall

SpecSettings == InitSettings /\ [][Next]_vars

(***************************************************************************)
(* Claims about the harness.                                               *)
(***************************************************************************)
Done == printed.result # <<>>
AllTrials == CountOuter(kind, cfg) * CountInner(kind, cfg)

\* C1: within one call of LotteryTest, SumTest or CandidatesTest, no two different
\* (testIndexOuter, testIndexInner, slot) are handed the same stream index.
C1_DistinctWithinCall ==
    \A a, b \in handed : a.index = b.index => a = b

\* a lottery call that has run all its trials, two draws each
C1_Witness ==
    /\ kind = "Lottery"
    /\ Done
    /\ Cardinality(handed) = 2 * AllTrials
    /\ AllTrials > 1

\* C2: a stream index handed out in this call is never one that a call of the same
\* test with another sequenceIndex (0..8, as main passes) derives.
SequenceIndices == 0..8
C2_NoOverlapBetweenBases ==
    \A h \in handed :
        \A s \in SequenceIndices \ {sequenceIndex} :
            \A o \in 0..(CountOuter(kind, cfg) - 1), i \in 0..(CountInner(kind, cfg) - 1) :
                \A slot \in Slots(kind) :
                    StreamIndex(kind, cfg, s, o, i, slot) # h.index

RECURSIVE SumSeq(_, _, _)
SumSeq(entries, j, n) ==
    IF n = 0 THEN 0 ELSE SumSeq(entries, j, n - 1) + entries[n].values[j]

\* C3: after n outcomes were folded into a bucket, each of its accumulators is the
\* arithmetic mean of those n outcomes (resp. of their squares).
C3_BucketIsMeanOfFolded ==
    \A o \in DOMAIN folded :
        LET n == Len(folded[o])
        IN  n > 0 =>
              \A j \in 1..Len(Accumulators(o)) :
                  Accumulators(o)[j] = Rat(SumSeq(folded[o], j, n), n)

\* thread t executes its trial in this step
TrialStepOf(t) ==
    /\ pc[t] = "trial"
    /\ testIndexInner'[t] = testIndexInner[t] + 1

\* the samples of SumTest's trial (o, i) never sum to 1.0
Exhausted(o, i) ==
    LET rng == RNGOf(sequenceIndex, c_sumSampleCount,
                     StreamIndex(kind, cfg, sequenceIndex, o, i, 0))
    IN  /\ kind = "Sum"
        /\ RLess(SumValue(rng, Len(rng)), One)

\* C4, the step of an exhausted trial: the error line is printed, nothing is folded
\* into the bucket's mean or mean of squares, and the loop goes on
C4_ExhaustedStep ==
    \A t \in Threads :
        (TrialStepOf(t) /\ Exhausted(testIndexOuter[t], testIndexInner[t])) =>
            /\ printed'.errors = printed.errors + 1
            /\ sumCountAvg' = sumCountAvg
            /\ sumCountSquareAvg' = sumCountSquareAvg
            /\ folded' = folded
            /\ testsFinished' = testsFinished + 1
            /\ pc'[t] \in {"progress", "trial", "idle"}

\* C4, the run: when the result is printed every trial of every bucket was
\* executed, each either folded or reported as an error
C4_RunCompletes ==
    Done =>
        /\ testsFinished = AllTrials
        /\ \A o \in DOMAIN folded :
              \A p \in 1..Len(folded[o]) : ~Exhausted(o, folded[o][p].inner)
        /\ printed.errors = Cardinality({d \in handed : Exhausted(d.outer, d.inner)})

\* C4: an exhausted SumTest trial is reported, is not folded as an outcome, and does
\* not abort the run.
C4_ExhaustionIsReportedNotFolded ==
    [][C4_ExhaustedStep]_vars /\ []C4_RunCompletes

\* a finished SumTest call in which a bucket with a non-zero mean met an exhausted
\* trial afterwards
C4_Witness ==
    /\ kind = "Sum"
    /\ Done
    /\ \E o \in DOMAIN folded :
          \E p \in 1..Len(folded[o]) :
              \E i \in (folded[o][p].inner + 1)..(CountInner(kind, cfg) - 1) :
                  Exhausted(o, i)

\* the step of thread t is an exhausted SumTest trial at 1-based position k of
\* bucket o
ExhaustedStepAt(t, o, k) ==
    /\ TrialStepOf(t)
    /\ testIndexOuter[t] = o
    /\ testIndexInner[t] + 1 = k
    /\ Exhausted(o, k - 1)

\* C11 as stated: after an exhausted inner trial with 1-based position k, the
\* bucket's running mean (and mean of squares) is the previous one with outcome 0
\* folded in with weight 1/k, i.e. previous * (k-1)/k.
C11_ExhaustionFoldsZero ==
    [][\A t \in Threads : \A o \in DOMAIN folded : \A k \in 1..CountInner(kind, cfg) :
          ExhaustedStepAt(t, o, k) =>
              /\ sumCountAvg'[o] = Lerp(sumCountAvg[o], Zero, Rat(1, k))
              /\ sumCountAvg'[o] = RMul(sumCountAvg[o], Rat(k - 1, k))
              /\ sumCountSquareAvg'[o] = Lerp(sumCountSquareAvg[o], Zero, Rat(1, k))]_vars

\* C11, amended: after an exhausted inner trial of SumTest the error line is logged
\* and the bucket's running mean and mean of squares equal the previous ones:
\* nothing, not even a zero, is folded.
C11_ExhaustionKeepsMean ==
    [][\A t \in Threads : \A o \in DOMAIN folded : \A k \in 1..CountInner(kind, cfg) :
          ExhaustedStepAt(t, o, k) =>
              /\ sumCountAvg'[o] = sumCountAvg[o]
              /\ sumCountSquareAvg'[o] = sumCountSquareAvg[o]
              /\ Len(folded'[o]) = Len(folded[o])
              /\ printed'.errors = printed.errors + 1]_vars

\* a thread has just executed an exhausted trial at a position k >= 2 of a bucket
\* whose running mean was not zero
C11_Witness ==
    \E t \in Threads :
        /\ kind = "Sum"
        /\ testIndexInner[t] >= 2
        /\ Exhausted(testIndexOuter[t], testIndexInner[t] - 1)
        /\ [outer |-> testIndexOuter[t], inner |-> testIndexInner[t] - 1, slot |-> 0,
            index |-> StreamIndex(kind, cfg, sequenceIndex, testIndexOuter[t],
                                  testIndexInner[t] - 1, 0)] \in handed
        /\ sumCountAvg[testIndexOuter[t]] # Zero
        /\ printed.errors >= 1

\* a test setting the harness cannot run a meaningful experiment with
Degenerate(k, c) ==
    \/ CountOuter(k, c) = 0
    \/ CountInner(k, c) = 0
    \/ k = "Lottery" /\ c.lotteryWinFrequency = 0
    \/ k = "Candidates" /\ PreCandidates(c.candidateCount) = 0

\* C8: with a degenerate setting the test fails fast: no generator is invoked, no
\* accumulator is updated, and no statistic is printed as if the run were valid.
C8_DegenerateFailsFast ==
    Degenerate(kind, cfg) =>
        /\ handed = {}
        /\ \A o \in DOMAIN folded : folded[o] = <<>>
        /\ \A o \in DOMAIN folded : \A j \in 1..Len(Accumulators(o)) : Accumulators(o)[j] = Zero
        /\ ~Done

\* the accumulators of bucket o after its inner trials 0..n-1, executed in order
RECURSIVE SequentialBucket(_, _)
SequentialBucket(o, n) ==
    IF n = 0 THEN [j \in 1..Len(Accumulators(o)) |-> Zero]
    ELSE LET prev == SequentialBucket(o, n - 1)
             out == TrialOutcome(o, n - 1)
         IN  IF out = <<>> THEN prev
             ELSE [j \in 1..Len(prev) |-> Lerp(prev[j], Int2Rat(out[j]), FoldWeight(n - 1))]

\* what a single thread running both loops in order prints
SequentialResult ==
    FinalMeans([o \in 0..(CountOuter(kind, cfg) - 1) |->
                    SequentialBucket(o, CountInner(kind, cfg))],
               CountOuter(kind, cfg))

\* C9, per step: a bucket's accumulators change only in a trial step of a thread
\* that executes that outer iteration
C9_SingleWriterStep ==
    \A o \in DOMAIN folded :
        (Accumulators(o)' # Accumulators(o) \/ folded'[o] # folded[o]) =>
            \E t \in Threads : TrialStepOf(t) /\ testIndexOuter[t] = o

\* C9, per state: an outer iteration is executed by one thread, its trials are
\* folded in increasing inner order, and the printed result is the sequential one
C9_State ==
    /\ \A t1, t2 \in Threads :
          (t1 # t2 /\ pc[t1] \in {"progress", "trial"} /\ pc[t2] \in {"progress", "trial"})
              => testIndexOuter[t1] # testIndexOuter[t2]
    /\ \A o \in DOMAIN folded :
          \A p, q \in 1..Len(folded[o]) :
              p < q => folded[o][p].inner < folded[o][q].inner
    /\ Done => printed.result = SequentialResult

\* C9: whatever the assignment of outer iterations to threads and the interleaving,
\* each bucket has one writer, is folded in inner order, and the result printed
\* equals that of a sequential execution.
C9_ScheduleIndependent ==
    [][C9_SingleWriterStep]_vars /\ []C9_State

\* a finished call in which both threads executed outer iterations, thread 1 the
\* first one
C9_Witness ==
    /\ Done
    /\ AllTrials > 1
    /\ testIndexOuter[0] # testIndexOuter[1]
    /\ testIndexOuter[1] = 0
    /\ testIndexInner[0] = CountInner(kind, cfg)
    /\ testIndexInner[1] = CountInner(kind, cfg)

\* thread t executes the progress report in this step
ProgressStepOf(t) ==
    /\ pc[t] = "progress"
    /\ pc'[t] = "trial"

\* the inner trials that were executed, each counted once
TrialsExecuted == {<<d.outer, d.inner>> : d \in handed}

\* the accumulators of bucket o after folding the values out with the weight of
\* inner position i, written without reference to the progress state
FoldedInto(o, out, i) ==
    IF out = <<>> THEN Accumulators(o)
    ELSE [j \in 1..Len(out) |->
            RAdd(RMul(Accumulators(o)[j], Rat(i, i + 1)), Rat(out[j], i + 1))]

\* C12, per step: lastPercent changes only in the progress report of thread 0; a
\* progress report is executed by thread 0 alone and changes no accumulator, log
\* or result; testsFinished changes only by + 1, in the step of a trial; a trial
\* step folds what its draws and its inner position determine and leaves
\* lastPercent alone
C12_Step ==
    /\ lastPercent' # lastPercent =>
          /\ ProgressStepOf(0)
          /\ \A t \in Threads \ {0} : pc'[t] = pc[t]
          /\ lastPercent' = Percent(testsFinished)
    /\ \A t \in Threads :
          ProgressStepOf(t) =>
              /\ t = 0
              /\ testsFinished' = testsFinished
              /\ \A o \in DOMAIN folded : Accumulators(o)' = Accumulators(o)
              /\ folded' = folded
              /\ handed' = handed
              /\ printed' = printed
    /\ testsFinished' # testsFinished =>
          /\ testsFinished' = testsFinished + 1
          /\ Cardinality({t \in Threads : TrialStepOf(t)}) = 1
    /\ \A t \in Threads :
          TrialStepOf(t) =>
              /\ testsFinished' = testsFinished + 1
              /\ lastPercent' = lastPercent
              /\ Accumulators(testIndexOuter[t])' =
                    FoldedInto(testIndexOuter[t],
                               TrialOutcome(testIndexOuter[t], testIndexInner[t]),
                               testIndexInner[t])

\* C12, per state: only thread 0 stands at the progress report; lastPercent is -1
\* or a percentage the counter has reached; the counter is the number of trials
\* executed and ends at outerCount * innerCount; the printed result is the one a
\* sequential run without progress reports computes
C12_State ==
    /\ \A t \in Threads : pc[t] = "progress" => t = 0
    /\ lastPercent \in -1..100
    /\ lastPercent <= Percent(testsFinished)
    /\ testsFinished = Cardinality(TrialsExecuted)
    /\ (\A t \in Threads : pc[t] = "joined") => testsFinished = AllTrials
    /\ Done => /\ testsFinished = AllTrials
               /\ printed.result = SequentialResult

\* C12: in every interleaving of the parallel region, lastPercent is read and
\* written only by the thread whose number is 0, testsFinished is modified only by
\* atomic increments and ends equal to outerCount * innerCount, and no accumulator
\* or final result depends on either of them.
C12_ProgressIsObservational ==
    [][C12_Step]_vars /\ []C12_State

\* a finished call in which thread 0 reported a progress that counts trials of
\* thread 1, and thread 1 executed a whole outer iteration without reporting
C12_Witness ==
    /\ Done
    /\ AllTrials > 1
    /\ testsFinished = AllTrials
    /\ testIndexOuter[1] # testIndexOuter[0]
    /\ testIndexInner[0] = CountInner(kind, cfg)
    /\ testIndexInner[1] = CountInner(kind, cfg)
    /\ lastPercent > Percent(CountInner(kind, cfg) - 1)
    /\ lastPercent < 100

(***************************************************************************)
(* Claims about single calls.                                              *)
(***************************************************************************)
\* a greatest element of a non-empty finite set of rationals
RMaxOf(S) == CHOOSE m \in S : \A x \in S : ~RLess(m, x)
MinOf(S) == CHOOSE m \in S : \A x \in S : m <= x

SecretaryExample == <<Rat(2, 10), Rat(9, 10), Rat(3, 10), Rat(5, 10)>>

\* C5: with P = floor(K / e) >= 1, foundAt is the smallest index in [P, K) whose
\* candidate is strictly greater than the maximum of the first P, the selected value
\* is that candidate; if there is none, foundAt = K - 1 and the selected value is
\* that maximum; betterCount counts the candidates strictly greater than the
\* selected value.  [0.2, 0.9, 0.3, 0.5] gives foundAt = 1, betterCount = 0.
C5_SecretaryRule ==
    (fn = "CandidateTrial" /\ ret # <<>>) =>
        LET K == Len(arg)
            P == PreCandidates(K)
            explorationMax == RMaxOf({At(arg, i) : i \in 0..(P - 1)})
            better == {i \in P..(K - 1) : RLess(explorationMax, At(arg, i))}
            outcome_a == IF better # {} THEN MinOf(better) ELSE K - 1
            selected == IF better # {} THEN At(arg, MinOf(better)) ELSE explorationMax
            outcome_b == Cardinality({i \in 0..(K - 1) : RLess(selected, At(arg, i))})
        IN  /\ P >= 1
            /\ K = 4 => P = 1
            /\ ret[1].foundAt = outcome_a
            /\ ret[1].betterCount = outcome_b
            /\ arg = SecretaryExample => ret[1] = [foundAt |-> 1, betterCount |-> 0]

\* the literal case of the rule, scored
C5_Witness ==
    /\ fn = "CandidateTrial"
    /\ arg = SecretaryExample
    /\ ret # <<>>

\* C6: with N >= 1, the winning draw and every sample in [0, 1) map to an integer of
\* [0, N), and the outcome is 1 exactly when some sample maps to the winning index.
\* With N = 2 and two samples mapped to 0 and 1, the outcome is 1.
C6_LotteryRule ==
    (fn = "LotteryWin" /\ ret # <<>>) =>
        LET N == arg.N
            winning == MapFloat(arg.winningFloat, 0, N - 1)
            mapped == [p \in 1..Len(arg.rng) |-> MapFloat(arg.rng[p], 0, N - 1)]
        IN  /\ winning \in 0..(N - 1)
            /\ \A p \in 1..Len(arg.rng) : mapped[p] \in 0..(N - 1)
            /\ ret[1] \in {0, 1}
            /\ ret[1] = 1 <=> \E p \in 1..Len(arg.rng) : mapped[p] = winning
            /\ (N = 2 /\ Len(arg.rng) = 2 /\ {mapped[1], mapped[2]} = {0, 1}) => ret[1] = 1

\* the literal case: N = 2, the samples map to 0 and 1, the last one wins
C6_Witness ==
    /\ fn = "LotteryWin"
    /\ ret = <<1>>
    /\ arg.N = 2
    /\ MapFloat(arg.rng[1], 0, 1) = 0
    /\ MapFloat(arg.rng[2], 0, 1) = 1
    /\ MapFloat(arg.winningFloat, 0, 1) = 1

RECURSIVE SumInts(_, _)
SumInts(values, n) == IF n = 0 THEN 0 ELSE SumInts(values, n - 1) + values[n]

Orders(n) == {q \in [1..n -> 1..n] : \A a, b \in 1..n : q[a] = q[b] => a = b}
AsRationals(values) == [p \in 1..Len(values) |-> Int2Rat(values[p])]

\* C7: folding outcomes one at a time with weight 1/k gives their arithmetic mean
\* after every k, the same for every order of the outcomes of a bucket; folding the
\* means of equally sized buckets gives the mean of all outcomes.
C7_FoldIsMean ==
    fn = "Fold" =>
        LET st == ret[1]
            I == Len(arg[1])
        IN  /\ st.inner > 0 =>
                  st.acc = Rat(SumInts(arg[st.bucket + 1], st.inner), st.inner)
            /\ \A b \in 1..Len(st.means) :
                  /\ st.means[b] = Rat(SumInts(arg[b], I), I)
                  /\ \A q \in Orders(I) :
                        FoldMean(AsRationals([p \in 1..I |-> arg[b][q[p]]]), I) = st.means[b]
            /\ st.final # <<>> =>
                  st.final[1] = Rat(SumInts([b \in 1..Len(arg) |-> SumInts(arg[b], I)], Len(arg)),
                                    Len(arg) * I)

\* two buckets of two different outcomes each, with different means, reduced
C7_Witness ==
    /\ fn = "Fold"
    /\ ret[1].final # <<>>
    /\ Len(arg) = 2
    /\ Len(arg[1]) = 2
    /\ arg[1][1] # arg[1][2]
    /\ arg[2][1] # arg[2][2]
    /\ ret[1].means[1] # ret[1].means[2]

\* C10: every element of Generate_BlueNoise / Generate_RedNoise is TriangleToUniform
\* of the normalised difference / sum of an adjacent pair of the count+1 white-noise
\* draws.
C10_EveryElementFromAPair ==
    (fn \in {"Generate_BlueNoise", "Generate_RedNoise"} /\ ret # <<>>) =>
        LET count == arg.numSamples
            w == Generate_WhiteNoise(count + 1, arg.streamIndex)
            FromPair(j) ==
                IF fn = "Generate_BlueNoise"
                THEN TriangleToUniform(RMul(RAdd(RSub(At(w, j + 1), At(w, j)), One), Half))
                ELSE TriangleToUniform(RMul(RAdd(At(w, j + 1), At(w, j)), Half))
        IN  \A i \in 0..(count - 1) :
                \E j \in 0..(count - 1) : At(ret[1], i) = FromPair(j)
====
